---------------------------- MODULE Spec2Model ----------------------------
(***************************************************************************)
(* A model of regenerate_latest_html.py: the run locator, the manifest     *)
(* reader, the chart-count tree walk, the slug derivation and the pipeline *)
(* that main() sequences.                                                  *)
(*                                                                         *)
(* Python values are tagged records [k |-> kind, v |-> payload] so that    *)
(* values of different Python types can be compared.  A Python string is   *)
(* a sequence of characters; a character is a one-character string, or    *)
(* the token "U+XXXX" for a code point outside ASCII.                      *)
(***************************************************************************)
EXTENDS Integers, Sequences, FiniteSets

VARIABLES
    \* the environment, shared by every invocation of main()
    chapter_root, \* settings.CHAPTER_OUTPUT_DIR: whether it exists, its listing
    store,        \* per run directory: its manifest.json and its chapter files
    disk,         \* the files under the two output directories
    clock,        \* the wall clock, in ticks of 1/TicksPerSecond second
    \* the locals of main(), per invocation (process)
    pc,           \* the pipeline state the invocation is in
    status,       \* the process exit status, Running until the process ends
    error,        \* what ended the invocation: the error logged, or the exception
    latest_run,
    report_id,
    metadata,
    chapters,
    validated,    \* the chapters handed to IRValidator.validate_chapter, in order
    invalid,      \* validate_chapters' `invalid` list: (chapter id, preview)
    composed,     \* the arguments handed to DocumentComposer.build_document
    document_ir,
    now,          \* the tick datetime.now() read
    timestamp,
    base_name,
    wrote,        \* the paths the invocation opened for writing
    reported,     \* the paths the invocation logged as saved (lines 138, 154)
    \* one call of each pure function
    root_in,      \* find_latest_run_dir: the argument
    located,      \* find_latest_run_dir: the result, Pending before the call
    tree,         \* count_charts: the argument `document_ir`
    chartResult,  \* count_charts: the result, Pending before the call
    slugIn,       \* build_slug: the argument `text`
    slugOut       \* build_slug: the returned slug, Pending before the call

envVars == <<chapter_root, store, disk, clock>>
mainVars == <<pc, status, error, latest_run, report_id, metadata, chapters,
              validated, invalid, composed, document_ir, now, timestamp,
              base_name, wrote, reported>>
callVars == <<root_in, located, tree, chartResult, slugIn, slugOut>>
vars == <<envVars, mainVars, callVars>>

-----------------------------------------------------------------------------
(* Python values *)

PyNone == [k |-> "none"]
PyStr(s) == [k |-> "str", v |-> s]
PyInt(n) == [k |-> "int", v |-> n]
PyList(l) == [k |-> "list", v |-> l]
PyDict(d) == [k |-> "dict", v |-> d]

\* The value of a variable that has not been assigned yet.
Pending == [k |-> "pending"]

\* Python truthiness, as `or` and `not` use it.
Truthy(x) ==
    CASE x.k = "none" -> FALSE
      [] x.k = "str" -> x.v # <<>>
      [] x.k = "int" -> x.v # 0
      [] x.k = "list" -> x.v # <<>>
      [] x.k = "dict" -> DOMAIN x.v # {}
      [] OTHER -> TRUE

\* a or b
PyOr(a, b) == IF Truthy(a) THEN a ELSE b

\* d.get(key), d.get(key, default) on a dict
DictGet(d, key, default) == IF key \in DOMAIN d.v THEN d.v[key] ELSE default

DigitChars == <<"0", "1", "2", "3", "4", "5", "6", "7", "8", "9">>

RECURSIVE NatStr(_)
NatStr(n) == IF n < 10 THEN <<DigitChars[n + 1]>>
             ELSE NatStr(n \div 10) \o <<DigitChars[(n % 10) + 1]>>

RECURSIVE JoinRepr(_)
\* ", ".join(repr(s) for s in l) for a list of strings
JoinRepr(l) ==
    IF l = <<>> THEN <<>>
    ELSE <<"'">> \o Head(l).v \o <<"'">>
         \o (IF Len(l) > 1 THEN <<",", " ">> ELSE <<>>) \o JoinRepr(Tail(l))

\* str(x), for the value kinds the model builds
StrOf(x) ==
    CASE x.k = "str" -> x.v
      [] x.k = "none" -> <<"N", "o", "n", "e">>
      [] x.k = "int" -> IF x.v < 0 THEN <<"-">> \o NatStr(-x.v) ELSE NatStr(x.v)
      [] x.k = "list" -> <<"[">> \o JoinRepr(x.v) \o <<"]">>
      [] OTHER -> <<"{", "}">>

\* s.startswith(prefix)
StartsWith(s, prefix) ==
    Len(s) >= Len(prefix) /\ SubSeq(s, 1, Len(prefix)) = prefix

-----------------------------------------------------------------------------
(* build_slug *)

AsciiAlnum == {"a", "b", "c", "d", "e", "f", "g", "h", "i", "j", "k", "l", "m",
               "n", "o", "p", "q", "r", "s", "t", "u", "v", "w", "x", "y", "z",
               "A", "B", "C", "D", "E", "F", "G", "H", "I", "J", "K", "L", "M",
               "N", "O", "P", "Q", "R", "S", "T", "U", "V", "W", "X", "Y", "Z",
               "0", "1", "2", "3", "4", "5", "6", "7", "8", "9"}
\* U+00E4 is a-umlaut, U+62A5 a CJK ideograph: str.isalnum() is true of both.
UnicodeAlnum == {"U+00E4", "U+62A5"}

\* c.isalnum()
IsAlnum(c) == c \in AsciiAlnum \cup UnicodeAlnum

\* c.isalnum() or c in (" ", "-", "_")
SlugKeeps(c) == IsAlnum(c) \/ c \in {" ", "-", "_"}

\* Of the characters the filter keeps, str.strip() can only remove spaces.
RECURSIVE LStrip(_)
LStrip(s) == IF s # <<>> /\ Head(s) = " " THEN LStrip(Tail(s)) ELSE s

RECURSIVE RStrip(_)
RStrip(s) == IF s # <<>> /\ s[Len(s)] = " " THEN RStrip(SubSeq(s, 1, Len(s) - 1))
             ELSE s

Strip(s) == RStrip(LStrip(s))

\* s.replace(" ", "_")
ReplaceSpaces(s) == [i \in DOMAIN s |-> IF s[i] = " " THEN "_" ELSE s[i]]

SlugMaxLen == 60

REPORT == <<"r", "e", "p", "o", "r", "t">>

\* s[:n]
Prefix(s, n) == SubSeq(s, 1, IF Len(s) < n THEN Len(s) ELSE n)

\* build_slug keeping ASCII letters and digits only
build_slug_ascii(text) ==
    LET AsciiKeeps(c) == c \in AsciiAlnum \cup {" ", "-", "_"}
        t == StrOf(PyOr(text, PyStr(REPORT)))
        sanitized == ReplaceSpaces(Strip(SelectSeq(t, AsciiKeeps)))
        cut == Prefix(sanitized, SlugMaxLen)
    IN IF cut # <<>> THEN cut ELSE REPORT

build_slug(text) ==
    LET t == StrOf(PyOr(text, PyStr(REPORT)))
        sanitized == ReplaceSpaces(Strip(SelectSeq(t, SlugKeeps)))
        cut == Prefix(sanitized, SlugMaxLen)
    IN IF cut # <<>> THEN cut ELSE REPORT

-----------------------------------------------------------------------------
(* count_charts and _count_chart_blocks *)

WIDGET == <<"w", "i", "d", "g", "e", "t">>
LIST == <<"l", "i", "s", "t">>
TABLE == <<"t", "a", "b", "l", "e">>
CHARTJS == <<"c", "h", "a", "r", "t", ".", "j", "s">>

\* x == "literal" for a Python value x
IsStr(x, s) == x.k = "str" /\ x.v = s

\* What a call gives: a returned count, or an exception that propagates.
Returned(n) == [raised |-> FALSE, n |-> n]
Raised == [raised |-> TRUE, n |-> 0]

\* a + b where either operand may have raised; b is not evaluated after a raised
Plus(a, b) == IF a.raised THEN Raised
              ELSE IF b.raised THEN Raised ELSE Returned(a.n + b.n)

RECURSIVE KeySeq(_)
\* The keys of a dict as Python strings, in some order (a key is kept whole,
\* as one token: the walk only asks whether it is a dict or a list).
KeySeq(keys) ==
    IF keys = {} THEN <<>>
    ELSE LET key == CHOOSE x \in keys : TRUE
         IN <<PyStr(<<key>>)>> \o KeySeq(keys \ {key})

\* `for x in v`: the items visited, or the TypeError of a value that is not
\* iterable.  A str yields its characters, a dict its keys.
Iter(v) ==
    CASE v.k = "list" -> [raised |-> FALSE, items |-> v.v]
      [] v.k = "str" -> [raised |-> FALSE,
                         items |-> [i \in DOMAIN v.v |-> PyStr(<<v.v[i]>>)]]
      [] v.k = "dict" -> [raised |-> FALSE, items |-> KeySeq(DOMAIN v.v)]
      [] OTHER -> [raised |-> TRUE, items |-> <<>>]

\* block.get("type") == "widget" and str(block.get("widgetType", "")).startswith("chart.js")
IsChartWidget(block) ==
    /\ IsStr(DictGet(block, "type", PyNone), WIDGET)
    /\ StartsWith(StrOf(DictGet(block, "widgetType", PyStr(<<>>))), CHARTJS)

RECURSIVE _count_chart_blocks(_)
RECURSIVE CountItems(_)
RECURSIVE CountCells(_)
RECURSIVE CountRows(_)
RECURSIVE CountBlock(_)

\* The loop body with the chart check and the nested-blocks check as
\* exclusive branches
CountBlock_ChartElif(block) ==
    IF block.k # "dict" THEN Returned(0)
    ELSE
      LET type == DictGet(block, "type", PyNone)
          nested == DictGet(block, "blocks", PyNone)
          generic == IF IsChartWidget(block) THEN Returned(1)
                     ELSE IF nested.k = "list" THEN _count_chart_blocks(nested)
                     ELSE Returned(0)
          listed == IF IsStr(type, LIST)
                    THEN LET it == Iter(DictGet(block, "items", PyList(<<>>)))
                         IN IF it.raised THEN Raised ELSE CountItems(it.items)
                    ELSE Returned(0)
          tabled == IF IsStr(type, TABLE)
                    THEN LET it == Iter(DictGet(block, "rows", PyList(<<>>)))
                         IN IF it.raised THEN Raised ELSE CountRows(it.items)
                    ELSE Returned(0)
      IN Plus(generic, Plus(listed, tabled))

\* lines 110-127: the body of the loop, for one block
CountBlock(block) ==
    IF block.k # "dict" THEN Returned(0)
    ELSE
      LET type == DictGet(block, "type", PyNone)
          nested == DictGet(block, "blocks", PyNone)
          chart == Returned(IF IsChartWidget(block) THEN 1 ELSE 0)
          generic == IF nested.k = "list" THEN _count_chart_blocks(nested)
                     ELSE Returned(0)
          listed == IF IsStr(type, LIST)
                    THEN LET it == Iter(DictGet(block, "items", PyList(<<>>)))
                         IN IF it.raised THEN Raised ELSE CountItems(it.items)
                    ELSE Returned(0)
          tabled == IF IsStr(type, TABLE)
                    THEN LET it == Iter(DictGet(block, "rows", PyList(<<>>)))
                         IN IF it.raised THEN Raised ELSE CountRows(it.items)
                    ELSE Returned(0)
      IN Plus(chart, Plus(generic, Plus(listed, tabled)))

\* lines 118-120
CountItems(items) ==
    IF items = <<>> THEN Returned(0)
    ELSE Plus(IF Head(items).k = "list" THEN _count_chart_blocks(Head(items))
              ELSE Returned(0),
              CountItems(Tail(items)))

\* lines 123-127
CountCells(cells) ==
    IF cells = <<>> THEN Returned(0)
    ELSE LET cell == Head(cells)
             cell_blocks == DictGet(cell, "blocks", PyList(<<>>))
         IN Plus(IF cell.k = "dict" /\ cell_blocks.k = "list"
                 THEN _count_chart_blocks(cell_blocks) ELSE Returned(0),
                 CountCells(Tail(cells)))

\* lines 122-123: row.get raises AttributeError unless row is a dict
CountRows(rows) ==
    IF rows = <<>> THEN Returned(0)
    ELSE LET row == Head(rows)
             it == Iter(DictGet(row, "cells", PyList(<<>>)))
         IN Plus(IF row.k # "dict" THEN Raised
                 ELSE IF it.raised THEN Raised ELSE CountCells(it.items),
                 CountRows(Tail(rows)))

_count_chart_blocks(blocks) ==
    LET it == Iter(blocks)
        RECURSIVE Loop(_)
        Loop(s) == IF s = <<>> THEN Returned(0)
                   ELSE Plus(CountBlock(Head(s)), Loop(Tail(s)))
    IN IF it.raised THEN Raised ELSE Loop(it.items)

count_charts(doc) ==
    LET RECURSIVE Loop(_)
        Loop(chs) ==
            IF chs = <<>> THEN Returned(0)
            ELSE LET chapter == Head(chs)
                 IN Plus(IF chapter.k # "dict" THEN Raised
                         ELSE _count_chart_blocks(
                                  DictGet(chapter, "blocks", PyList(<<>>))),
                         Loop(Tail(chs)))
        it == Iter(DictGet(doc, "chapters", PyList(<<>>)))
    IN IF it.raised THEN Raised ELSE Loop(it.items)

-----------------------------------------------------------------------------
(* find_latest_run_dir *)

\* A directory listing is a sequence of entries, in the order iterdir() yields
\* them: [name, is_dir, has_manifest, mtime], mtime that of its manifest.json.
NoRun == [k |-> "none"]
RunDir(name) == [k |-> "dir", name |-> name]

\* lines 28-31: candidate.is_dir() and (candidate / "manifest.json").exists()
Qualifies(candidate) == candidate.is_dir /\ candidate.has_manifest

RECURSIVE InsertByMtimeDesc(_, _)
InsertByMtimeDesc(item, sorted) ==
    IF sorted = <<>> THEN <<item>>
    ELSE IF Head(sorted).mtime >= item.mtime
         THEN <<Head(sorted)>> \o InsertByMtimeDesc(item, Tail(sorted))
         ELSE <<item>> \o sorted

RECURSIVE SortedByMtimeDesc(_)
\* sorted(run_dirs, key=lambda item: item[1], reverse=True): the sort is
\* stable, and reverse=True keeps items of equal key in their original order.
SortedByMtimeDesc(run_dirs) ==
    IF run_dirs = <<>> THEN <<>>
    ELSE InsertByMtimeDesc(run_dirs[Len(run_dirs)],
                           SortedByMtimeDesc(SubSeq(run_dirs, 1, Len(run_dirs) - 1)))

\* find_latest_run_dir without the sort: the first run listed
find_first_run_dir(root) ==
    IF ~root.exists THEN NoRun
    ELSE LET run_dirs == SelectSeq(root.listing, Qualifies)
         IN IF run_dirs = <<>> THEN NoRun ELSE RunDir(run_dirs[1].name)

find_latest_run_dir(root) ==
    IF ~root.exists THEN NoRun
    ELSE LET run_dirs == SelectSeq(root.listing, Qualifies)
         IN IF run_dirs = <<>> THEN NoRun
            ELSE RunDir(SortedByMtimeDesc(run_dirs)[1].name)

-----------------------------------------------------------------------------
(* load_manifest, load_chapters, validate_chapters, stitch_document *)

\* A manifest.json that cannot be opened or parsed.
Unreadable == [k |-> "unreadable"]
EmptyDict == PyDict(<<>>)

\* run_dir.name as a Python string: a run directory's name is one character.
NameOf(run_dir) == PyStr(<<run_dir.name>>)

\* lines 46-57.  open() or json.load() raising, and .get on a manifest that is
\* not a JSON object, all end in the except branch.
load_manifest(run_dir) ==
    LET manifest == store[run_dir.name].manifest
    IN IF manifest.k # "dict"
       THEN [report_id |-> PyNone, metadata |-> PyNone]
       ELSE [report_id |-> PyOr(DictGet(manifest, "reportId", PyNone),
                                NameOf(run_dir)),
             metadata |-> PyOr(DictGet(manifest, "metadata", PyNone), EmptyDict)]

\* ChapterStorage.load_chapters: the run's chapter files, in order.
load_chapters(run_dir) == store[run_dir.name].chapters

\* IRValidator.validate_chapter: a fragment carries the verdict it gets.
validate_chapter(fragment) == [ok |-> fragment.ok, errors |-> fragment.errors]

PreviewMax == 3

UNKNOWN == <<"u", "n", "k", "n", "o", "w", "n">>

RECURSIVE ValidateLoop(_)
\* lines 72-75: the validator calls made and the `invalid` list built
ValidateLoop(chs) ==
    IF chs = <<>> THEN [calls |-> <<>>, invalid |-> <<>>]
    ELSE LET chapter == Head(chs)
             verdict == validate_chapter(chapter)
             rest == ValidateLoop(Tail(chs))
             entry == [chapter_id |-> PyOr(DictGet(chapter.chapter, "chapterId",
                                                   PyNone), PyStr(UNKNOWN)),
                       errors |-> verdict.errors,
                       preview |-> Prefix(verdict.errors, PreviewMax)]
         IN [calls |-> <<chapter>> \o rest.calls,
             invalid |-> IF verdict.ok THEN rest.invalid
                         ELSE <<entry>> \o rest.invalid]

\* DocumentComposer.build_document: one chapter of the tree per fragment.
build_document(rid, md, chs) ==
    PyDict([reportId |-> rid, metadata |-> md,
            chapters |-> PyList([n \in DOMAIN chs |-> chs[n].chapter])])

-----------------------------------------------------------------------------
(* save_document_ir, render_html *)

TicksPerSecond == 2

DATE == <<"2", "0", "2", "6", "1", "1", "0", "3">>

TwoDigits(n) == <<DigitChars[(n \div 10) + 1], DigitChars[(n % 10) + 1]>>

\* datetime.now().strftime("%Y%m%d_%H%M%S") at tick t of the day
Strftime(t) ==
    LET sec == t \div TicksPerSecond
    IN DATE \o <<"_">> \o TwoDigits(sec \div 3600)
            \o TwoDigits((sec \div 60) % 60) \o TwoDigits(sec % 60)

\* f"report_ir_{base_name}_{timestamp}_regen.json" under DOCUMENT_IR_OUTPUT_DIR
IrPath(base, ts) ==
    [dir |-> "document_ir",
     name |-> <<"r", "e", "p", "o", "r", "t", "_", "i", "r", "_">> \o base
              \o <<"_">> \o ts
              \o <<"_", "r", "e", "g", "e", "n", ".", "j", "s", "o", "n">>]

\* f"report_html_{base_name}_{timestamp}.html" under OUTPUT_DIR / "html"
HtmlPath(base, ts) ==
    [dir |-> "html",
     name |-> <<"r", "e", "p", "o", "r", "t", "_", "h", "t", "m", "l", "_">>
              \o base \o <<"_">> \o ts \o <<".", "h", "t", "m", "l">>]

\* mkdir(parents=True, exist_ok=True), then write_text: all is written, or
\* mkdir or open raises (nothing changes), or the write raises after open
\* created or truncated the file.
WriteOutcomes == {"ok", "mkdir_error", "write_error"}

DiskAfter(path, outcome) ==
    IF outcome = "mkdir_error" THEN disk
    ELSE {f \in disk : f.path # path}
         \cup {[path |-> path, complete |-> (outcome = "ok")]}

\* metadata.get("query") or metadata.get("title") or metadata.get("reportId")
\* or report_id
SlugSource(md, rid) ==
    PyOr(DictGet(md, "query", PyNone),
         PyOr(DictGet(md, "title", PyNone),
              PyOr(DictGet(md, "reportId", PyNone), rid)))

-----------------------------------------------------------------------------
(* main *)

Running == -1

Set(f, i, v) == [f EXCEPT ![i] = v]

\* `return 1`, or an exception leaving main(): the process ends with status 1
Fail(i, why) ==
    /\ pc' = Set(pc, i, "Failed")
    /\ status' = Set(status, i, 1)
    /\ error' = Set(error, i, why)

Advance(i, to) ==
    /\ pc' = Set(pc, i, to)
    /\ UNCHANGED <<status, error>>

\* lines 177-180
FindLatestRun(i) ==
    /\ pc[i] = "Start"
    /\ LET run == find_latest_run_dir(chapter_root)
       IN /\ latest_run' = Set(latest_run, i, run)
          /\ IF run = NoRun THEN Fail(i, "no run") ELSE Advance(i, "RunSelected")
    /\ UNCHANGED <<envVars, callVars, report_id, metadata, chapters, validated,
                   invalid, composed, document_ir, now, timestamp, base_name,
                   wrote, reported>>

\* main() without the `return 1` of line 184
LoadManifest_NoReturn(i) ==
    /\ pc[i] = "RunSelected"
    /\ LET m == load_manifest(latest_run[i])
       IN /\ report_id' = Set(report_id, i, m.report_id)
          /\ metadata' = Set(metadata, i, m.metadata)
          /\ Advance(i, "ManifestLoaded")
    /\ UNCHANGED <<envVars, callVars, latest_run, chapters, validated, invalid,
                   composed, document_ir, now, timestamp, base_name, wrote,
                   reported>>

\* lines 182-184
LoadManifest(i) ==
    /\ pc[i] = "RunSelected"
    /\ LET m == load_manifest(latest_run[i])
       IN /\ report_id' = Set(report_id, i, m.report_id)
          /\ metadata' = Set(metadata, i, m.metadata)
          /\ IF ~Truthy(m.report_id) \/ m.metadata = PyNone
             THEN Fail(i, "manifest") ELSE Advance(i, "ManifestLoaded")
    /\ UNCHANGED <<envVars, callVars, latest_run, chapters, validated, invalid,
                   composed, document_ir, now, timestamp, base_name, wrote,
                   reported>>

\* main() without the `return 1` of line 189
LoadChapters_NoCheck(i) ==
    /\ pc[i] = "ManifestLoaded"
    /\ chapters' = Set(chapters, i, load_chapters(latest_run[i]))
    /\ Advance(i, "FragmentsLoaded")
    /\ UNCHANGED <<envVars, callVars, latest_run, report_id, metadata, validated,
                   invalid, composed, document_ir, now, timestamp, base_name,
                   wrote, reported>>

\* lines 186-189
LoadChapters(i) ==
    /\ pc[i] = "ManifestLoaded"
    /\ LET chs == load_chapters(latest_run[i])
       IN /\ chapters' = Set(chapters, i, chs)
          /\ IF chs = <<>> THEN Fail(i, "no chapters")
             ELSE Advance(i, "FragmentsLoaded")
    /\ UNCHANGED <<envVars, callVars, latest_run, report_id, metadata, validated,
                   invalid, composed, document_ir, now, timestamp, base_name,
                   wrote, reported>>

\* main() ending with status 1 when a chapter fails validation
ValidateChapters_Blocking(i) ==
    /\ pc[i] = "FragmentsLoaded"
    /\ LET v == ValidateLoop(chapters[i])
       IN /\ validated' = Set(validated, i, v.calls)
          /\ invalid' = Set(invalid, i, v.invalid)
          /\ IF v.invalid # <<>> THEN Fail(i, "invalid")
             ELSE Advance(i, "Validated")
    /\ UNCHANGED <<envVars, callVars, latest_run, report_id, metadata, chapters,
                   composed, document_ir, now, timestamp, base_name, wrote,
                   reported>>

\* line 191
ValidateChapters(i) ==
    /\ pc[i] = "FragmentsLoaded"
    /\ LET v == ValidateLoop(chapters[i])
       IN /\ validated' = Set(validated, i, v.calls)
          /\ invalid' = Set(invalid, i, v.invalid)
    /\ Advance(i, "Validated")
    /\ UNCHANGED <<envVars, callVars, latest_run, report_id, metadata, chapters,
                   composed, document_ir, now, timestamp, base_name, wrote,
                   reported>>

\* line 193: build_document, then the log line that calls count_charts
StitchDocument(i) ==
    /\ pc[i] = "Validated"
    /\ LET doc == build_document(report_id[i], metadata[i], chapters[i])
       IN /\ composed' = Set(composed, i, [report_id |-> report_id[i],
                                           metadata |-> metadata[i],
                                           chapters |-> chapters[i]])
          /\ IF count_charts(doc).raised
             THEN /\ Fail(i, "exception")
                  /\ UNCHANGED document_ir
             ELSE /\ Advance(i, "Composed")
                  /\ document_ir' = Set(document_ir, i, doc)
    /\ UNCHANGED <<envVars, callVars, latest_run, report_id, metadata, chapters,
                   validated, invalid, now, timestamp, base_name, wrote, reported>>

\* lines 195-200: the timestamp, the slug, save_document_ir
SaveDocumentIr(i) ==
    /\ pc[i] = "Composed"
    /\ now' = Set(now, i, clock)
    /\ timestamp' = Set(timestamp, i, Strftime(clock))
    /\ IF metadata[i].k # "dict"
       THEN \* metadata.get raises AttributeError
            /\ Fail(i, "exception")
            /\ UNCHANGED <<base_name, disk, wrote, reported>>
       ELSE LET base == build_slug(SlugSource(metadata[i], report_id[i]))
                ir_path == IrPath(base, Strftime(clock))
            IN /\ base_name' = Set(base_name, i, base)
               /\ \E outcome \in WriteOutcomes :
                    /\ disk' = DiskAfter(ir_path, outcome)
                    /\ wrote' = Set(wrote, i,
                                    IF outcome = "mkdir_error" THEN wrote[i]
                                    ELSE wrote[i] \cup {ir_path})
                    /\ IF outcome = "ok"
                       THEN /\ reported' = Set(reported, i,
                                               reported[i] \cup {ir_path})
                            /\ Advance(i, "IRSaved")
                       ELSE /\ Fail(i, "exception")
                            /\ UNCHANGED reported
    /\ UNCHANGED <<chapter_root, store, clock, callVars, latest_run, report_id,
                   metadata, chapters, validated, invalid, composed, document_ir>>

\* render_html deleting the invocation's files when its write fails
RenderHtml_Rollback(i) ==
    /\ pc[i] = "IRSaved"
    /\ LET html_path == HtmlPath(base_name[i], timestamp[i])
       IN \E outcome \in WriteOutcomes :
            /\ wrote' = Set(wrote, i, IF outcome = "mkdir_error" THEN wrote[i]
                                      ELSE wrote[i] \cup {html_path})
            /\ IF outcome = "ok"
               THEN /\ disk' = DiskAfter(html_path, outcome)
                    /\ reported' = Set(reported, i, reported[i] \cup {html_path})
                    /\ pc' = Set(pc, i, "Rendered")
                    /\ status' = Set(status, i, 0)
                    /\ UNCHANGED error
               ELSE /\ disk' = {f \in disk : f.path \notin wrote[i]}
                    /\ Fail(i, "exception")
                    /\ UNCHANGED reported
    /\ UNCHANGED <<chapter_root, store, clock, callVars, latest_run, report_id,
                   metadata, chapters, validated, invalid, composed, document_ir,
                   now, timestamp, base_name>>

\* render_html taking a timestamp of its own
RenderHtml_Restamp(i) ==
    /\ pc[i] = "IRSaved"
    /\ LET html_path == HtmlPath(base_name[i], Strftime(clock))
       IN \E outcome \in WriteOutcomes :
            /\ disk' = DiskAfter(html_path, outcome)
            /\ wrote' = Set(wrote, i, IF outcome = "mkdir_error" THEN wrote[i]
                                      ELSE wrote[i] \cup {html_path})
            /\ IF outcome = "ok"
               THEN /\ reported' = Set(reported, i, reported[i] \cup {html_path})
                    /\ pc' = Set(pc, i, "Rendered")
                    /\ status' = Set(status, i, 0)
                    /\ UNCHANGED error
               ELSE /\ Fail(i, "exception")
                    /\ UNCHANGED reported
    /\ UNCHANGED <<chapter_root, store, clock, callVars, latest_run, report_id,
                   metadata, chapters, validated, invalid, composed, document_ir,
                   now, timestamp, base_name>>

\* lines 201-207: render_html, then `return 0`
RenderHtml(i) ==
    /\ pc[i] = "IRSaved"
    /\ LET html_path == HtmlPath(base_name[i], timestamp[i])
       IN \E outcome \in WriteOutcomes :
            /\ disk' = DiskAfter(html_path, outcome)
            /\ wrote' = Set(wrote, i, IF outcome = "mkdir_error" THEN wrote[i]
                                      ELSE wrote[i] \cup {html_path})
            /\ IF outcome = "ok"
               THEN /\ reported' = Set(reported, i, reported[i] \cup {html_path})
                    /\ pc' = Set(pc, i, "Rendered")
                    /\ status' = Set(status, i, 0)
                    /\ UNCHANGED error
               ELSE /\ Fail(i, "exception")
                    /\ UNCHANGED reported
    /\ UNCHANGED <<chapter_root, store, clock, callVars, latest_run, report_id,
                   metadata, chapters, validated, invalid, composed, document_ir,
                   now, timestamp, base_name>>

MaxClock == 4

\* The wall clock advances on its own.
Tick ==
    /\ clock < MaxClock
    /\ clock' = clock + 1
    /\ UNCHANGED <<chapter_root, store, disk, mainVars, callVars>>

-----------------------------------------------------------------------------
(* One call of each pure function *)

CallFindLatestRunDir ==
    /\ located = Pending
    /\ located' = find_latest_run_dir(root_in)
    /\ UNCHANGED <<envVars, mainVars, root_in, tree, chartResult, slugIn, slugOut>>

CallCountCharts ==
    /\ chartResult = Pending
    /\ chartResult' = count_charts(tree)
    /\ UNCHANGED <<envVars, mainVars, root_in, located, tree, slugIn, slugOut>>

CallBuildSlug ==
    /\ slugOut = Pending
    /\ slugOut' = PyStr(build_slug(slugIn))
    /\ UNCHANGED <<envVars, mainVars, root_in, located, tree, chartResult, slugIn>>

-----------------------------------------------------------------------------
(* The inputs the model is run on *)

\* Sequences over S of length at most n
SeqsUpTo(S, n) == UNION {[1..m -> S] : m \in 0..n}

RunNames == {"a", "b", "c"}
MaxMtime == 3

\* What a name under the root can be: a plain file, a directory without a
\* manifest, a directory whose manifest has one of MaxMtime times.
Entries(maxMtime) ==
    {[name |-> nm, is_dir |-> FALSE, has_manifest |-> FALSE, mtime |-> 0] :
        nm \in RunNames}
    \cup {[name |-> nm, is_dir |-> TRUE, has_manifest |-> FALSE, mtime |-> 0] :
        nm \in RunNames}
    \cup {[name |-> nm, is_dir |-> TRUE, has_manifest |-> TRUE, mtime |-> t] :
        nm \in RunNames, t \in 1..maxMtime}

\* Every listing of distinct names, in every order iterdir() may yield it
Listings(maxMtime) ==
    {l \in SeqsUpTo(Entries(maxMtime), Cardinality(RunNames)) :
        \A x, y \in DOMAIN l : x # y => l[x].name # l[y].name}

RootInputs(maxMtime) ==
    {[exists |-> FALSE, listing |-> <<>>]}
    \cup {[exists |-> TRUE, listing |-> l] : l \in Listings(maxMtime)}

\* Blocks of a Document Tree
SECTION == <<"s", "e", "c", "t", "i", "o", "n">>
PARAGRAPH == <<"p", "a", "r", "a", "g", "r", "a", "p", "h">>
CHARTJS_LINE == <<"c", "h", "a", "r", "t", ".", "j", "s", "-", "l", "i", "n", "e">>

ChartLeaf == PyDict([type |-> PyStr(WIDGET), widgetType |-> PyStr(CHARTJS_LINE)])
ParagraphLeaf == PyDict([type |-> PyStr(PARAGRAPH)])
Scalar == PyStr(<<"x">>)

\* Blocks without children: widgets whose widgetType is, or is not, a chart's,
\* a block that is not a widget, an entry that is not a record.
LeafBlocks ==
    {ChartLeaf, ParagraphLeaf, Scalar,
     PyDict([type |-> PyStr(WIDGET), widgetType |-> PyStr(CHARTJS)]),
     PyDict([type |-> PyStr(WIDGET),
             widgetType |-> PyStr(<<"x">> \o CHARTJS)]),
     PyDict([type |-> PyStr(WIDGET),
             widgetType |-> PyStr(<<"c", "h", "a", "r", "t", ".">>)]),
     PyDict([type |-> PyStr(WIDGET)]),
     PyDict([type |-> PyStr(WIDGET), widgetType |-> PyNone]),
     PyDict([type |-> PyStr(WIDGET), widgetType |-> PyList(<<PyStr(CHARTJS)>>)]),
     PyDict([type |-> PyStr(PARAGRAPH), widgetType |-> PyStr(CHARTJS_LINE)])}

\* Blocks with an optional field missing or of a type the walk tolerates
OddBlocks ==
    {PyDict([type |-> PyStr(SECTION), blocks |-> Scalar]),
     PyDict([type |-> PyStr(LIST)]),
     PyDict([type |-> PyStr(LIST), items |-> PyStr(<<"a", "b">>)]),
     PyDict([type |-> PyStr(SECTION), items |-> PyList(<<PyList(<<ChartLeaf>>)>>)]),
     PyDict([type |-> PyStr(TABLE)]),
     PyDict([type |-> PyStr(TABLE), rows |-> PyList(<<EmptyDict>>)]),
     PyDict([type |-> PyStr(TABLE),
             rows |-> PyList(<<PyDict([cells |-> PyStr(<<"a", "b">>)])>>)]),
     PyDict([type |-> PyStr(TABLE),
             rows |-> PyList(<<PyDict([cells |-> PyList(<<Scalar,
                                          PyDict([blocks |-> PyNone]),
                                          EmptyDict>>)])>>)])}

\* Blocks with a field of a type the data model does not allow there
BadRowTable == PyDict([type |-> PyStr(TABLE), rows |-> PyList(<<Scalar>>)])

MalformedBlocks ==
    {BadRowTable,
     PyDict([type |-> PyStr(LIST), items |-> PyNone]),
     PyDict([type |-> PyStr(LIST), items |-> PyInt(5)]),
     PyDict([type |-> PyStr(TABLE), rows |-> PyNone]),
     PyDict([type |-> PyStr(TABLE), rows |-> PyDict([r1 |-> EmptyDict])]),
     PyDict([type |-> PyStr(TABLE),
             rows |-> PyList(<<PyList(<<ChartLeaf>>)>>)]),
     PyDict([type |-> PyStr(TABLE),
             rows |-> PyList(<<PyDict([cells |-> PyNone])>>)])}

ContainerKinds == {"section", "chart", "list", "table"}

\* A block of the given container kind holding the block sequence `inner`
Wrap(kind, inner) ==
    CASE kind = "section" ->
           PyDict([type |-> PyStr(SECTION), blocks |-> PyList(inner)])
      [] kind = "chart" ->
           PyDict([type |-> PyStr(WIDGET), widgetType |-> PyStr(CHARTJS),
                   blocks |-> PyList(inner)])
      [] kind = "list" ->
           PyDict([type |-> PyStr(LIST),
                   items |-> PyList(<<Scalar, PyList(inner)>>)])
      [] OTHER ->
           PyDict([type |-> PyStr(TABLE),
                   rows |-> PyList(<<EmptyDict,
                              PyDict([cells |-> PyList(<<Scalar,
                                         PyDict([blocks |-> PyList(inner)])>>)])>>)])

MaxDepth == 2

RECURSIVE BlocksOfDepth(_)
\* The blocks nested exactly d containers deep
BlocksOfDepth(d) ==
    IF d = 0 THEN LeafBlocks \cup OddBlocks \cup MalformedBlocks
    ELSE {Wrap(kind, inner) :
            kind \in ContainerKinds,
            inner \in UNION {{<<b>>, <<b, ChartLeaf>>} : b \in BlocksOfDepth(d - 1)}}

Chapter(blocks) == PyDict([chapterId |-> PyStr(<<"c", "1">>),
                           blocks |-> PyList(blocks)])

\* Documents without a chapter list, or whose chapters are not records
DegenerateTrees ==
    {EmptyDict,
     PyDict([chapters |-> PyList(<<PyDict([blocks |-> PyNone])>>)]),
     PyDict([chapters |-> PyList(<<Scalar>>)])}

\* Documents holding the block b: alone, before a second chapter, and after
\* a chart in the second of two chapters
DocumentsWith(b) ==
    {PyDict([chapters |-> PyList(<<Chapter(<<b>>)>>)]),
     PyDict([chapters |-> PyList(<<Chapter(<<b>>), Chapter(<<ChartLeaf>>)>>)]),
     PyDict([chapters |-> PyList(<<EmptyDict, Chapter(<<ChartLeaf, b>>)>>)])}

\* Texts for build_slug
SlugAlphabet == {"Q", "3", "U+00E4", " ", "-", "_", "!"}
MaxTextLen == 3

Repeat(c, n) == [x \in 1..n |-> c]

ExampleText == <<"Q", "3", " ", "M", "U+00E4", "r", "k", "t", " ",
                 "R", "e", "p", "o", "r", "t", "!", "!">>

\* Texts about as long as the slug limit: a run of one character, with any
\* character before it and after it
LongTexts(around) ==
    {pre \o Repeat(c, n) \o post :
        pre \in SeqsUpTo(SlugAlphabet, 1), c \in SlugAlphabet,
        n \in (around - 2)..(around + 2),
        post \in SeqsUpTo(SlugAlphabet, 1)}

SlugInputs(maxLen) ==
    {PyNone, PyInt(0), PyInt(42), PyStr(ExampleText)}
    \cup {PyStr(t) : t \in SeqsUpTo(SlugAlphabet, maxLen)
                           \cup LongTexts(SlugMaxLen)}

\* Manifests of a run
R1 == PyStr(<<"r", "1">>)
DEMO == PyStr(<<"D", "e", "m", "o">>)

DemoManifest == PyDict([reportId |-> R1, metadata |-> PyDict([title |-> DEMO])])

ManifestInputs ==
    {Unreadable,
     PyList(<<>>),
     EmptyDict,
     DemoManifest,
     PyDict([reportId |-> R1, createdAt |-> PyStr(DATE),
             metadata |-> PyDict([query |-> PyStr(<<"Q", "3", " ", "!">>),
                                  title |-> DEMO,
                                  reportId |-> PyStr(<<"m", "1">>)])]),
     PyDict([reportId |-> R1,
             metadata |-> PyDict([query |-> PyStr(<<>>),
                                  reportId |-> PyStr(<<"m", "1">>)])]),
     PyDict([reportId |-> PyInt(7), metadata |-> PyNone]),
     PyDict([reportId |-> R1, metadata |-> PyStr(<<"x">>)]),
     PyDict([reportId |-> PyStr(<<"!", "!">>), metadata |-> EmptyDict])}

\* Chapter fragments, each with the verdict the validator gives it
FragOk ==
    [chapter |-> PyDict([chapterId |-> PyStr(<<"c", "1">>),
                         blocks |-> PyList(<<Wrap("list", <<ChartLeaf>>)>>)]),
     ok |-> TRUE, errors |-> <<>>]
FragBad ==
    [chapter |-> PyDict([chapterId |-> PyStr(<<"c", "2">>),
                         blocks |-> PyList(<<ChartLeaf>>)]),
     ok |-> FALSE, errors |-> <<"e1">>]
FragBadMany ==
    [chapter |-> PyDict([blocks |-> PyList(<<ParagraphLeaf>>)]),
     ok |-> FALSE, errors |-> <<"e1", "e2", "e3", "e4">>]
FragOkNoted ==
    [chapter |-> PyDict([chapterId |-> PyStr(<<"c", "3">>)]),
     ok |-> TRUE, errors |-> <<"e1">>]
FragBadRow ==
    [chapter |-> PyDict([chapterId |-> PyStr(<<"c", "4">>),
                         blocks |-> PyList(<<BadRowTable, ChartLeaf>>)]),
     ok |-> FALSE, errors |-> <<"e1", "e2", "e3">>]

FragmentInputs == {FragOk, FragBad, FragBadMany, FragOkNoted, FragBadRow}
MaxFragments == 2

RunEntry(nm, t) == [name |-> nm, is_dir |-> TRUE, has_manifest |-> TRUE, mtime |-> t]

\* Chapter roots for main(), each with the run that is the latest in it
PipelineRoots ==
    {[root |-> [exists |-> FALSE, listing |-> <<>>], latest |-> "a"],
     [root |-> [exists |-> TRUE,
                listing |-> <<[name |-> "c", is_dir |-> FALSE,
                               has_manifest |-> FALSE, mtime |-> 0],
                              [name |-> "b", is_dir |-> TRUE,
                               has_manifest |-> FALSE, mtime |-> 0]>>],
      latest |-> "a"],
     [root |-> [exists |-> TRUE, listing |-> <<RunEntry("a", 1)>>], latest |-> "a"],
     [root |-> [exists |-> TRUE,
                listing |-> <<RunEntry("b", 2), RunEntry("a", 1)>>],
      latest |-> "b"],
     [root |-> [exists |-> TRUE,
                listing |-> <<RunEntry("a", 1), RunEntry("b", 2)>>],
      latest |-> "b"]}

-----------------------------------------------------------------------------
(* Specifications *)

NoCalls ==
    /\ root_in = [exists |-> FALSE, listing |-> <<>>]
    /\ located = Pending
    /\ tree = EmptyDict
    /\ chartResult = Pending
    /\ slugIn = PyNone
    /\ slugOut = Pending

\* The invocations in `procs` are about to enter main().
Started(procs) ==
    /\ pc = [i \in procs |-> "Start"]
    /\ status = [i \in procs |-> Running]
    /\ error = [i \in procs |-> "none"]
    /\ latest_run = [i \in procs |-> Pending]
    /\ report_id = [i \in procs |-> Pending]
    /\ metadata = [i \in procs |-> Pending]
    /\ chapters = [i \in procs |-> <<>>]
    /\ validated = [i \in procs |-> <<>>]
    /\ invalid = [i \in procs |-> <<>>]
    /\ composed = [i \in procs |-> Pending]
    /\ document_ir = [i \in procs |-> Pending]
    /\ now = [i \in procs |-> 0]
    /\ timestamp = [i \in procs |-> <<>>]
    /\ base_name = [i \in procs |-> <<>>]
    /\ wrote = [i \in procs |-> {}]
    /\ reported = [i \in procs |-> {}]

\* The latest run of root r holds manifest m and fragments fr; any other run
\* holds nothing usable.
Environment(r, m, fr) ==
    /\ chapter_root = r.root
    /\ store = [nm \in RunNames |->
                  IF nm = r.latest THEN [manifest |-> m, chapters |-> fr]
                  ELSE [manifest |-> Unreadable, chapters |-> <<>>]]
    /\ disk = {}
    /\ clock = 0

\* One invocation of main(), on every input
Init ==
    /\ \E r \in PipelineRoots, m \in ManifestInputs,
          fr \in SeqsUpTo(FragmentInputs, MaxFragments) : Environment(r, m, fr)
    /\ Started({1})
    /\ NoCalls

Next ==
    \/ \E i \in DOMAIN pc : FindLatestRun(i)
    \/ \E i \in DOMAIN pc : LoadManifest(i)
    \/ \E i \in DOMAIN pc : LoadChapters(i)
    \/ \E i \in DOMAIN pc : ValidateChapters(i)
    \/ \E i \in DOMAIN pc : StitchDocument(i)
    \/ \E i \in DOMAIN pc : SaveDocumentIr(i)
    \/ \E i \in DOMAIN pc : RenderHtml(i)
    \/ Tick

Spec == Init /\ [][Next]_vars

\* The upstream generation publishes a newer run while main() is running.
UpstreamPublishesRun ==
    /\ chapter_root.exists
    /\ \A x \in DOMAIN chapter_root.listing : chapter_root.listing[x].name # "b"
    /\ chapter_root' = [chapter_root EXCEPT
                          !.listing = Append(@, RunEntry("b", 2))]
    /\ UNCHANGED <<store, disk, clock, mainVars, callVars>>

\* Two invocations of main() at once: on the same run, or on two runs when
\* a newer one is published between their starts
InitConcurrent ==
    /\ chapter_root = [exists |-> TRUE, listing |-> <<RunEntry("a", 1)>>]
    /\ \E m \in {DemoManifest, EmptyDict},
          fr \in {<<FragOk>>, <<FragOk, FragBad>>, <<>>} :
          store = [nm \in RunNames |->
                     IF nm = "a" THEN [manifest |-> m, chapters |-> fr]
                     ELSE [manifest |-> PyDict([reportId |-> R1]),
                           chapters |-> <<FragOk>>]]
    /\ disk = {}
    /\ clock = 0
    /\ Started({1, 2})
    /\ NoCalls

NextConcurrent == Next \/ UpstreamPublishesRun

SpecConcurrent == InitConcurrent /\ [][NextConcurrent]_vars

NoMain ==
    /\ chapter_root = [exists |-> FALSE, listing |-> <<>>]
    /\ store = <<>>
    /\ disk = {}
    /\ clock = 0
    /\ Started({})

InitLocate ==
    /\ NoMain
    /\ root_in \in RootInputs(MaxMtime)
    /\ located = Pending
    /\ tree = EmptyDict
    /\ chartResult = Pending
    /\ slugIn = PyNone
    /\ slugOut = Pending

SpecLocate == InitLocate /\ [][CallFindLatestRunDir]_vars

InitCharts ==
    /\ NoMain
    /\ root_in = [exists |-> FALSE, listing |-> <<>>]
    /\ located = Pending
    /\ \/ tree \in DegenerateTrees
       \/ \E d \in 0..MaxDepth : \E b \in BlocksOfDepth(d) :
             tree \in DocumentsWith(b)
    /\ chartResult = Pending
    /\ slugIn = PyNone
    /\ slugOut = Pending

SpecCharts == InitCharts /\ [][CallCountCharts]_vars

InitSlug ==
    /\ NoMain
    /\ root_in = [exists |-> FALSE, listing |-> <<>>]
    /\ located = Pending
    /\ tree = EmptyDict
    /\ chartResult = Pending
    /\ slugIn \in SlugInputs(MaxTextLen)
    /\ slugOut = Pending

SpecSlug == InitSlug /\ [][CallBuildSlug]_vars

-----------------------------------------------------------------------------
(* Properties of find_latest_run_dir *)

QualifyingEntries(root) ==
    IF root.exists
    THEN {root.listing[x] : x \in {y \in DOMAIN root.listing :
                                      /\ root.listing[y].is_dir
                                      /\ root.listing[y].has_manifest}}
    ELSE {}

DistinctMtimes(S) == \A e, f \in S : e # f => e.mtime # f.mtime

\* C5: find_latest_run_dir returns "no run" exactly when the root does not
\* exist or no immediate subdirectory holds a manifest; otherwise, when the
\* manifests' modification times are distinct, it returns the subdirectory
\* whose manifest is strictly the newest, whatever the names and whatever the
\* order of the listing.
C5_LatestRun ==
    located # Pending =>
        LET Q == QualifyingEntries(root_in)
        IN /\ (located = NoRun) <=> (Q = {})
           /\ (Q # {} /\ DistinctMtimes(Q)) =>
                 \E e \in Q : /\ \A f \in Q \ {e} : f.mtime < e.mtime
                              /\ located = RunDir(e.name)

\* The newest run is neither the first listed nor the last by name.
C5_Witness ==
    /\ located = RunDir("a")
    /\ root_in.listing = <<RunEntry("c", 1), RunEntry("a", 3), RunEntry("b", 2)>>

-----------------------------------------------------------------------------
(* Properties of count_charts *)

RECURSIVE Flatten(_)
Flatten(seqs) == IF seqs = <<>> THEN <<>> ELSE Head(seqs) \o Flatten(Tail(seqs))

IsListOf(x) == x.k = "list"

\* The block sequences held by a block, by container kind
GenericChildren(b) ==
    IF "blocks" \in DOMAIN b.v /\ b.v.blocks.k = "list" THEN b.v.blocks.v ELSE <<>>

ListChildren(b) ==
    IF /\ IsStr(DictGet(b, "type", PyNone), LIST)
       /\ "items" \in DOMAIN b.v
       /\ b.v.items.k = "list"
    THEN LET lists == SelectSeq(b.v.items.v, IsListOf)
         IN Flatten([x \in DOMAIN lists |-> lists[x].v])
    ELSE <<>>

HasCellList(row) ==
    row.k = "dict" /\ "cells" \in DOMAIN row.v /\ row.v.cells.k = "list"

HasBlockList(cell) ==
    cell.k = "dict" /\ "blocks" \in DOMAIN cell.v /\ cell.v.blocks.k = "list"

TableChildren(b) ==
    IF /\ IsStr(DictGet(b, "type", PyNone), TABLE)
       /\ "rows" \in DOMAIN b.v
       /\ b.v.rows.k = "list"
    THEN LET rows == SelectSeq(b.v.rows.v, HasCellList)
             cells == SelectSeq(Flatten([x \in DOMAIN rows |-> rows[x].v.cells.v]),
                                HasBlockList)
         IN Flatten([x \in DOMAIN cells |-> cells[x].v.blocks.v])
    ELSE <<>>

RECURSIVE Reachable(_)
\* Every block reachable from a block sequence, each occurrence once
Reachable(blocks) ==
    IF blocks = <<>> THEN <<>>
    ELSE LET b == Head(blocks)
         IN <<b>>
            \o (IF b.k = "dict"
                THEN Reachable(GenericChildren(b) \o ListChildren(b)
                               \o TableChildren(b))
                ELSE <<>>)
            \o Reachable(Tail(blocks))

\* The chapters of a tree that are records, and their top-level blocks
ChapterBlocks(doc) ==
    IF "chapters" \in DOMAIN doc.v /\ doc.v.chapters.k = "list"
    THEN LET chs == SelectSeq(doc.v.chapters.v, HasBlockList)
         IN [x \in DOMAIN chs |-> chs[x].v.blocks.v]
    ELSE <<>>

IsChart(b) ==
    /\ b.k = "dict"
    /\ "type" \in DOMAIN b.v /\ IsStr(b.v.type, WIDGET)
    /\ "widgetType" \in DOMAIN b.v /\ b.v.widgetType.k = "str"
    /\ Len(b.v.widgetType.v) >= Len(CHARTJS)
    /\ \A x \in DOMAIN CHARTJS : b.v.widgetType.v[x] = CHARTJS[x]

ChartsIn(blocks) ==
    LET all == Reachable(blocks)
    IN Cardinality({x \in DOMAIN all : IsChart(all[x])})

RECURSIVE SumOf(_)
SumOf(ns) == IF ns = <<>> THEN 0 ELSE Head(ns) + SumOf(Tail(ns))

\* The sum over the chapters of the chart widgets reachable in each
ChartTotal(doc) ==
    LET per == ChapterBlocks(doc)
    IN SumOf([x \in DOMAIN per |-> ChartsIn(per[x])])

\* The fields the walk iterates have the types the data model gives them.
BlockConforms(b) ==
    b.k = "dict" =>
        /\ "items" \in DOMAIN b.v => b.v.items.k = "list"
        /\ "rows" \in DOMAIN b.v =>
              /\ b.v.rows.k = "list"
              /\ \A x \in DOMAIN b.v.rows.v :
                    LET row == b.v.rows.v[x]
                    IN /\ row.k = "dict"
                       /\ "cells" \in DOMAIN row.v => row.v.cells.k = "list"

Conforms(doc) ==
    /\ "chapters" \in DOMAIN doc.v =>
          /\ doc.v.chapters.k = "list"
          /\ \A x \in DOMAIN doc.v.chapters.v :
                LET ch == doc.v.chapters.v[x]
                IN /\ ch.k = "dict"
                   /\ "blocks" \in DOMAIN ch.v => ch.v.blocks.k = "list"
    /\ LET all == Reachable(Flatten(ChapterBlocks(doc)))
       IN \A x \in DOMAIN all : BlockConforms(all[x])

\* C3: on every Document Tree, count_charts returns the sum over the chapters
\* of the chart widgets reachable from the chapter's blocks through generic
\* blocks fields, list items that are sequences and table cells' blocks, at
\* any depth; a chart widget that carries blocks is counted once and its
\* blocks are walked too.
C3_CountsEveryChart ==
    chartResult # Pending =>
        /\ Conforms(tree) => chartResult = Returned(ChartTotal(tree))
        /\ ~chartResult.raised => chartResult.n = ChartTotal(tree)

\* A chart widget holding a table whose cell holds a chart, next to a second
\* chart, in the first of two chapters: four charts.
C3_Witness ==
    /\ tree = PyDict([chapters |-> PyList(<<
                 Chapter(<<Wrap("chart",
                     <<Wrap("table", <<ChartLeaf>>), ChartLeaf>>)>>),
                 Chapter(<<ChartLeaf>>)>>)])
    /\ chartResult = Returned(4)

\* C4: the walk never raises: whatever field is missing or of the wrong
\* type, a count is returned, the malformed entry contributing 0.
C4_NeverRaises ==
    chartResult # Pending =>
        /\ ~chartResult.raised
        /\ chartResult.n = ChartTotal(tree)

-----------------------------------------------------------------------------
(* Properties of main() *)

PipelineOrder == <<"Start", "RunSelected", "ManifestLoaded", "FragmentsLoaded",
                   "Validated", "Composed", "IRSaved", "Rendered">>
Terminal == {"Rendered", "Failed"}

\* What the step that leads to pipeline state `to` has achieved
StepDone(i, to) ==
    CASE to = "RunSelected" ->
           \E e \in QualifyingEntries(chapter_root) : latest_run[i] = RunDir(e.name)
      [] to = "ManifestLoaded" ->
           /\ store[latest_run[i].name].manifest.k = "dict"
           /\ Truthy(report_id[i])
           /\ metadata[i] \notin {PyNone, Pending}
      [] to = "FragmentsLoaded" ->
           /\ chapters[i] # <<>>
           /\ chapters[i] = store[latest_run[i].name].chapters
      [] to = "Validated" -> validated[i] = chapters[i]
      [] to = "Composed" -> composed[i] # Pending /\ document_ir[i] # Pending
      [] to = "IRSaved" ->
           \E f \in disk : /\ f.complete /\ f.path.dir = "document_ir"
                           /\ f.path \in wrote[i] /\ f.path \in reported[i]
      [] to = "Rendered" ->
           \E f \in disk : /\ f.complete /\ f.path.dir = "html"
                           /\ f.path \in wrote[i] /\ f.path \in reported[i]
      [] OTHER -> FALSE

Locals(i) == <<pc[i], status[i], error[i], latest_run[i], report_id[i],
               metadata[i], chapters[i], validated[i], invalid[i], composed[i],
               document_ir[i], now[i], timestamp[i], base_name[i], wrote[i],
               reported[i]>>

C1_Status ==
    \A i \in DOMAIN pc :
        /\ status[i] \in {Running, 0, 1}
        /\ status[i] = 0 <=> pc[i] = "Rendered"
        /\ status[i] = 1 <=> pc[i] = "Failed"

C1_Step ==
    \A i \in DOMAIN pc :
        /\ pc'[i] # pc[i] =>
              \/ \E n \in 1..(Len(PipelineOrder) - 1) :
                    /\ pc[i] = PipelineOrder[n]
                    /\ pc'[i] = PipelineOrder[n + 1]
                    /\ StepDone(i, PipelineOrder[n + 1])'
              \/ /\ pc[i] \notin Terminal \cup {"FragmentsLoaded"}
                 /\ pc'[i] = "Failed"
        /\ pc'[i] = pc[i] => Locals(i)' = Locals(i)

\* C1: main() advances Start -> RunSelected -> ManifestLoaded ->
\* FragmentsLoaded -> Validated -> Composed -> IRSaved -> Rendered, one state
\* at a time and only when the step has succeeded; a step other than
\* validation that fails leads straight to Failed; no step runs twice; the
\* exit status is 0 exactly in Rendered and 1 exactly in Failed.
C1_Pipeline == []C1_Status /\ [][C1_Step]_vars

\* An unreadable manifest has ended the invocation.
C1_Witness ==
    /\ pc[1] = "Failed" /\ status[1] = 1 /\ error[1] = "manifest"
    /\ store[latest_run[1].name].manifest = Unreadable

NotOk(fragment) == ~fragment.ok

C2_Inv ==
    \A i \in DOMAIN pc :
        /\ validated[i] # <<>> => validated[i] = chapters[i]
        /\ composed[i] # Pending =>
              /\ composed[i].chapters = store[latest_run[i].name].chapters
              /\ validated[i] = composed[i].chapters
        /\ Len(invalid[i]) = Len(SelectSeq(validated[i], NotOk))
        /\ \A x \in DOMAIN invalid[i] :
              /\ Len(invalid[i][x].preview) <= PreviewMax
              /\ invalid[i][x].preview
                    = SubSeq(invalid[i][x].errors, 1, Len(invalid[i][x].preview))
              /\ Len(invalid[i][x].errors) >= PreviewMax
                    => Len(invalid[i][x].preview) = PreviewMax

C2_Step ==
    \A i \in DOMAIN pc :
        /\ (pc[i] = "FragmentsLoaded" /\ Locals(i)' # Locals(i)) =>
              /\ pc'[i] = "Validated"
              /\ validated'[i] = chapters[i]
        /\ (pc[i] = "Validated" /\ Locals(i)' # Locals(i)) =>
              /\ composed'[i] # Pending
              /\ composed'[i].chapters = chapters[i]

\* C2: validation is advisory: the validator is called once per fragment, in
\* order; whatever the verdicts, the step after loading leads to Validated
\* and the next one hands every fragment, in the original order, to the
\* composer; the failing fragments are listed with at most three messages.
C2_Advisory == []C2_Inv /\ [][C2_Step]_vars

\* A run of two fragments, one of them invalid, has ended in Rendered.
C2_Witness ==
    /\ pc[1] = "Rendered" /\ status[1] = 0
    /\ Len(chapters[1]) = 2
    /\ Len(invalid[1]) = 1
    /\ composed[1].chapters = chapters[1]

\* The selected run's manifest was read and the run has no fragment.
ZeroFragments(i) ==
    /\ pc[i] \notin {"Start", "RunSelected"}
    /\ latest_run[i] # NoRun
    /\ Truthy(report_id[i]) /\ metadata[i] # PyNone
    /\ store[latest_run[i].name].chapters = <<>>

\* C6: when the manifest is read and zero fragments are loaded, main() goes
\* no further than Failed with status 1; no output file exists at any point,
\* and neither the composer nor the renderer is called.
C6_NoOutput ==
    \A i \in DOMAIN pc :
        ZeroFragments(i) =>
            /\ pc[i] \in {"ManifestLoaded", "Failed"}
            /\ pc[i] = "Failed" => status[i] = 1 /\ error[i] = "no chapters"
            /\ wrote[i] = {} /\ reported[i] = {} /\ disk = {}
            /\ composed[i] = Pending /\ document_ir[i] = Pending

C6_Witness ==
    /\ ZeroFragments(1)
    /\ pc[1] = "Failed" /\ status[1] = 1 /\ error[1] = "no chapters"

C7_Inv ==
    \A i \in DOMAIN pc :
        /\ \A f \in disk : (f.path \in wrote[i] /\ ~f.complete) =>
                              pc[i] = "Failed" /\ status[i] = 1
        /\ (pc[i] = "Failed" /\ reported[i] # {}) =>
              /\ status[i] = 1
              /\ \A p \in reported[i] :
                    /\ p.dir = "document_ir"
                    /\ [path |-> p, complete |-> TRUE] \in disk

C7_Step ==
    \A i \in DOMAIN pc :
        (/\ pc[i] \in {"Composed", "IRSaved"}
         /\ Locals(i)' # Locals(i)
         /\ pc'[i] \notin {"IRSaved", "Rendered"}) =>
            /\ pc'[i] = "Failed" /\ status'[i] = 1
            /\ reported'[i] = reported[i]
            /\ \A f \in disk : f.complete => f \in disk'

\* C7: a write that fails in save_document_ir or render_html ends main() with
\* status 1 and nothing is rolled back: when the render step fails after the
\* IR was written, the IR file is still on disk, complete, and no rendered
\* file is reported.
C7_NoRollback == []C7_Inv /\ [][C7_Step]_vars

\* The IR is saved and reported, and the render step's write has failed.
C7_Witness ==
    /\ pc[1] = "Failed" /\ status[1] = 1
    /\ Cardinality(reported[1]) = 1
    /\ \E f \in disk : f.path.dir = "document_ir" /\ f.complete
    /\ \E f \in disk : f.path.dir = "html" /\ ~f.complete

\* The value the slug is derived from, read off the run's manifest: the
\* metadata's query, else its title, else its reportId, else the report id
FirstTruthy(values) ==
    LET truthy == SelectSeq(values, Truthy) IN truthy[1]

SlugSourceOf(run_dir) ==
    LET manifest == store[run_dir.name].manifest.v
        md == IF "metadata" \in DOMAIN manifest /\ Truthy(manifest.metadata)
              THEN manifest.metadata.v ELSE <<>>
        Field(d, key) == IF key \in DOMAIN d THEN d[key] ELSE PyNone
    IN FirstTruthy(<<Field(md, "query"), Field(md, "title"), Field(md, "reportId"),
                     Field(manifest, "reportId"), NameOf(run_dir)>>)

IR_PREFIX == <<"r", "e", "p", "o", "r", "t", "_", "i", "r", "_">>
IR_SUFFIX == <<"_", "r", "e", "g", "e", "n", ".", "j", "s", "o", "n">>
HTML_PREFIX == <<"r", "e", "p", "o", "r", "t", "_", "h", "t", "m", "l", "_">>
HTML_SUFFIX == <<".", "h", "t", "m", "l">>

\* C9: an invocation that reaches Rendered has written exactly one IR file and
\* one rendered file, both on disk, whose names carry the same slug and the
\* same timestamp: the slug of the manifest's query, else title, else
\* metadata reportId, else report id, and the time read before the IR write.
C9_SharedStamp ==
    \A i \in DOMAIN pc :
        pc[i] = "Rendered" =>
            LET key == build_slug(SlugSourceOf(latest_run[i])) \o <<"_">>
                       \o Strftime(now[i])
                ir == [dir |-> "document_ir",
                       name |-> IR_PREFIX \o key \o IR_SUFFIX]
                html == [dir |-> "html", name |-> HTML_PREFIX \o key \o HTML_SUFFIX]
            IN /\ wrote[i] = {ir, html}
               /\ reported[i] = {ir, html}
               /\ {[path |-> ir, complete |-> TRUE],
                   [path |-> html, complete |-> TRUE]} \subseteq disk

\* The slug comes from the query, and the render step ran a second or more
\* after the timestamp was taken.
C9_Witness ==
    /\ pc[1] = "Rendered"
    /\ base_name[1] = <<"Q", "3">>
    /\ clock \div TicksPerSecond > now[1] \div TicksPerSecond

\* C8: two concurrent invocations never write the same path, whatever run
\* each reads and whenever each starts.
C8_DistinctPaths ==
    \A i, j \in DOMAIN pc : i # j => wrote[i] \cap wrote[j] = {}

\* When two invocations do write the same path in an output directory:
\* exactly when their slugs are equal and their timestamps were taken within
\* the same second.
SamePathOnSameKey ==
    \A i, j \in DOMAIN pc :
        i # j =>
            \A p \in wrote[i], q \in wrote[j] :
                p.dir = q.dir =>
                    (p = q <=> /\ base_name[i] = base_name[j]
                               /\ now[i] \div TicksPerSecond
                                     = now[j] \div TicksPerSecond)

-----------------------------------------------------------------------------
(* Properties of build_slug *)

KeptBySlug(c) == c \in AsciiAlnum \cup UnicodeAlnum \cup {" ", "-", "_"}
IsAsciiPunctuation(c) == c \in {"!", ".", "/", "'", "[", "]", ",", "{", "}"}

EXAMPLE_SLUG == <<"Q", "3", "_", "M", "U+00E4", "r", "k", "t", "_",
                  "R", "e", "p", "o", "r", "t">>
EXAMPLE_ASCII_SLUG == <<"Q", "3", "_", "M", "r", "k", "t", "_",
                        "R", "e", "p", "o", "r", "t">>

\* The text build_slug works on: str(text), or "report" for a falsy text
SlugText(text) == IF Truthy(text) THEN StrOf(text) ELSE REPORT

=============================================================================
